---------------------------- MODULE Spec2Model ----------------------------
(***************************************************************************)
(* Embedding service of vector-embedding/app: EmbeddingService             *)
(* (embeddings.py) over CacheManager (cache.py), as a state machine.       *)
(*                                                                         *)
(* Request handlers are coroutines on one event loop: a handler runs       *)
(* without interruption from one await to the next, so every action below  *)
(* is the code between two awaits of one handler.  The redis client and    *)
(* the SentenceTransformer constructor are synchronous calls; the OpenAI   *)
(* call, tenacity's backoff sleep and run_in_executor are the awaits.      *)
(***************************************************************************)
EXTENDS Integers, Sequences, FiniteSets, TLC

VARIABLES
    openai_client,     \* EmbeddingService.openai_client is set (an API key was configured)
    local_model,       \* EmbeddingService.local_model: 0 is None, k the k-th instance built
    local_model_name,  \* EmbeddingService.local_model_name
    available,         \* CacheManager.available, decided in __init__
    store,             \* the redis keyspace: key -> pickled embedding, NoVec when absent
    store_up,          \* environment: the redis server answers
    loadable,          \* environment: SentenceTransformer(name) succeeds
    call,              \* per request handler: the frame of its running or last call
    materialized,      \* history: SentenceTransformer instances built so far (counted up to 2)
    load_failed,       \* history: some load attempt has raised
    vector_search,     \* the VectorSearchEngine: index (stored vectors), texts, metadata
    sync,              \* the engine method running on the event loop thread, or the last one
    disk,              \* the two artifacts at faiss_index_path: index file and .metadata sidecar
    supplied           \* history: per record of the index, what its add call supplied

vars == << openai_client, local_model, local_model_name, available, store,
           store_up, loadable, call, materialized, load_failed, vector_search, sync, disk, supplied >>

-----------------------------------------------------------------------------
(* settings.py *)

embedding_model_openai == "text-embedding-3-small"
embedding_model_local == "all-MiniLM-L6-v2"
\* settings.max_batch_size as configured for the model runs (the default is 100)
max_batch_size == 2
\* @retry(stop=stop_after_attempt(3), ...)
stop_after_attempt == 3
\* settings.vector_dimension as configured for the model runs (the default is 1536)
vector_dimension == 2

-----------------------------------------------------------------------------
(* Bounds and input sets *)

\* longest texts list a batch request carries
MaxTexts == 3

Texts == {"a", "a:x"}

\* a request's model argument; "" stands for None (both are falsy in `if model`)
ModelArgs == {"", "text-embedding-3-small", "all-MiniLM-L6-v2"}

Handlers == {1, 2}

RECURSIVE SeqsUpTo(_, _)
SeqsUpTo(S, n) ==
    IF n = 0 THEN {<< >>}
    ELSE LET shorter == SeqsUpTo(S, n - 1)
         IN  shorter \cup {Append(s, x) : s \in {q \in shorter : Len(q) = n - 1}, x \in S}

TextLists == SeqsUpTo(Texts, MaxTexts)

-----------------------------------------------------------------------------
(* Values *)

\* None in the place of an embedding
NoVec == [by |-> "None", of |-> "None"]

\* An embedding is identified by the model that computed it and the text it
\* was computed for; embeddings are non-empty lists, hence truthy.
Vec(model, text) == [by |-> model, of |-> text]

NoError == [kind |-> "none", causes |-> {}]

Error(kind, causes) == [kind |-> kind, causes |-> causes]

startswith(s, prefix) ==
    /\ Len(s) >= Len(prefix)
    /\ SubSeq(s, 1, Len(prefix)) = prefix

\* hashlib.md5(...).hexdigest(), idealised as collision-free: a digest is
\* represented by the content it was computed from.
md5(content) == content

\* `content = f"{text}:{model}"` (line 19)
content_of(text, model) == text \o ":" \o model

generate_key(text, model) == "embedding:" \o md5(content_of(text, model))

\* model names a request can resolve to
ModelNames == (ModelArgs \ {""}) \cup {embedding_model_openai, embedding_model_local}

Keys == {generate_key(t, m) : t \in Texts, m \in ModelNames}


-----------------------------------------------------------------------------
(* CacheManager (cache.py).  Each operator is the value a method returns,  *)
(* or the keyspace it leaves behind.                                       *)

\* get_embedding: None when unavailable, on a store error, or on a missing key
cache_get_embedding(text, model) ==
    IF ~available THEN NoVec
    ELSE IF ~store_up THEN NoVec
    ELSE store[generate_key(text, model)]

\* setex is tried whenever the store answers, whatever the ping at
\* construction said
cache_set_embedding_unguarded(text, model, embedding) ==
    IF ~store_up THEN store
    ELSE [store EXCEPT ![generate_key(text, model)] = embedding]

\* set_embedding: setex, a no-op when unavailable or on a store error
cache_set_embedding(text, model, embedding) ==
    IF ~available THEN store
    ELSE IF ~store_up THEN store
    ELSE [store EXCEPT ![generate_key(text, model)] = embedding]

\* an empty list, not one None per text, when unavailable or on error
cache_get_batch_empty_on_error(texts, model) ==
    IF ~available \/ ~store_up THEN << >>
    ELSE [i \in 1..Len(texts) |-> store[generate_key(texts[i], model)]]

\* get_batch_embeddings: one mget; [None] * len(texts) when unavailable or on error
cache_get_batch_embeddings(texts, model) ==
    IF ~available THEN [i \in 1..Len(texts) |-> NoVec]
    ELSE IF ~store_up THEN [i \in 1..Len(texts) |-> NoVec]
    ELSE [i \in 1..Len(texts) |-> store[generate_key(texts[i], model)]]

\* the pipeline is filled and never executed
cache_set_batch_queued(texts, model, embeddings) == store

\* set_batch_embeddings: one pipeline of setex over zip(texts, embeddings),
\* executed in order (the last write to a key stands)
cache_set_batch_embeddings(texts, model, embeddings) ==
    IF ~available THEN store
    ELSE IF ~store_up THEN store
    ELSE LET n == IF Len(texts) < Len(embeddings) THEN Len(texts) ELSE Len(embeddings)
             hits(k) == {i \in 1..n : generate_key(texts[i], model) = k}
             last(S) == CHOOSE i \in S : \A j \in S : j <= i
         IN  [k \in DOMAIN store |->
                 IF hits(k) = {} THEN store[k] ELSE embeddings[last(hits(k))]]

-----------------------------------------------------------------------------
(* EmbeddingService (embeddings.py): model resolution *)

\* without a name the route is remote whether or not a client is configured
model_type_default_openai(model) ==
    IF model # "" /\ startswith(model, "text-embedding") THEN "openai"
    ELSE IF model # "" THEN "local"
    ELSE "openai"

\* `if model and model.startswith("text-embedding")` ... (lines 72-81, 124-132)
model_type_of(model) ==
    IF model # "" /\ startswith(model, "text-embedding") THEN "openai"
    ELSE IF model # "" THEN "local"
    ELSE IF openai_client THEN "openai" ELSE "local"

model_name_of(model) ==
    IF model # "" THEN model
    ELSE IF model_type_of(model) = "openai" THEN embedding_model_openai
    ELSE embedding_model_local

\* the lookup result is never taken for a hit
HitNever(cached) == FALSE

\* `if cached:` (lines 86, 143)
Hit(cached) == cached # NoVec

-----------------------------------------------------------------------------
(* Call frames *)

IdleCall ==
    [ op |-> "idle", texts |-> << >>, model |-> "", pc |-> "idle",
      model_type |-> "none", model_name |-> "",
      attempts |-> 0, uncached_indices |-> << >>, cached |-> << >>,
      embeddings |-> << >>, error |-> NoError,
      sent |-> << >>, writes |-> << >>, loads |-> 0 ]

\* a frame at entry: the arguments and the resolved model
Enter(op, texts, model) ==
    [ IdleCall EXCEPT !.op = op, !.texts = texts, !.model = model, !.pc = "entered",
                      !.model_type = model_type_of(model),
                      !.model_name = model_name_of(model) ]

\* `return embeddings, model_name`
Return(c, embeddings) ==
    [c EXCEPT !.pc = "done", !.embeddings = embeddings, !.error = NoError]

\* `except Exception as e`: the handler holds e while it goes on
Caught(c, cause) == [c EXCEPT !.error = [kind |-> "caught", causes |-> {cause}]]

\* `raise ValueError(...)` leaving the call
Raise(c, error) == [c EXCEPT !.pc = "done", !.embeddings = << >>, !.error = error]

Sent(c, provider, texts) ==
    [c EXCEPT !.sent = Append(@, [to |-> provider, texts |-> texts])]

Wrote(c, texts, model, embeddings) ==
    [c EXCEPT !.writes = Append(@, [texts |-> texts, model |-> model,
                                    embeddings |-> embeddings])]

Finished(c) == c.pc = "done"
Succeeded(c) == c.pc = "done" /\ c.error = NoError
Failed(c) == c.pc = "done" /\ c.error # NoError
Running(c) == c.pc \notin {"idle", "done"}

RemoteCalls(c) == Cardinality({i \in DOMAIN c.sent : c.sent[i].to = "openai"})
LocalCalls(c) == Cardinality({i \in DOMAIN c.sent : c.sent[i].to = "local"})

-----------------------------------------------------------------------------
(* EmbeddingService._load_local_model (lines 22-30) *)

\* the model is built on every call
NeedsLoadAlways(model) == TRUE

\* `if self.local_model is None`
NeedsLoad(model) == model = 0

Min(a, b) == IF a < b THEN a ELSE b

\* One call of _load_local_model.  It contains no await, so the test and the
\* assignment are one step of the event loop.
load_local_model ==
    IF NeedsLoad(local_model)
    THEN IF loadable
         THEN /\ local_model' = Min(materialized + 1, 2)
              /\ local_model_name' = embedding_model_local
              /\ materialized' = Min(materialized + 1, 2)
              /\ UNCHANGED load_failed
         ELSE /\ local_model' = 0
              /\ load_failed' = TRUE
              /\ UNCHANGED << local_model_name, materialized >>
    ELSE UNCHANGED << local_model, local_model_name, materialized, load_failed >>

LoadCount == IF NeedsLoad(local_model) THEN 1 ELSE 0

Loaded(c, n) == [c EXCEPT !.loads = @ + n]

no_load == UNCHANGED << local_model, local_model_name, materialized, load_failed >>

Config == << openai_client, available >>
\* the vector index, which no method of the embedding service touches
Index == << vector_search, sync, disk, supplied >>
Env == << store_up, loadable >>

-----------------------------------------------------------------------------
(* EmbeddingService.get_embedding (lines 69-116) *)

\* the except branch falls back whatever the route of the request
CanFallbackAnyRoute(model_type, model) == model # 0

\* `if model_type == "openai" and self.local_model is not None` (line 103)
CanFallback(model_type, model) == model_type = "openai" /\ model # 0

\* one attempt too many
RetryOnceMore(attempts) == attempts < stop_after_attempt + 1

\* stop=stop_after_attempt(3): another attempt follows a failed one
RetryAgain(attempts) == attempts < stop_after_attempt

\* the fallback keeps the name the request resolved to
fallback_model_as_requested == embedding_model_openai

\* `fallback_model = settings.embedding_model_local` (line 107)
fallback_model == embedding_model_local

\* Entry up to the first await: resolution, cache lookup, and for the local
\* route _get_local_embedding up to run_in_executor.
get_embedding(p, text, model) ==
    /\ call[p].pc \in {"idle", "done"}
    /\ LET c0 == Enter("single", << text >>, model)
           cached == cache_get_embedding(text, c0.model_name)
           c == [c0 EXCEPT !.cached = << cached >>]
       IN  IF Hit(cached)
           THEN /\ call' = [call EXCEPT ![p] = Return(c, << cached >>)]
                /\ no_load
           ELSE IF c.model_type = "openai"
           THEN /\ call' = [call EXCEPT ![p] = [c EXCEPT !.pc = "openai_attempt"]]
                /\ no_load
           ELSE /\ load_local_model
                /\ call' = [call EXCEPT ![p] =
                       IF local_model' = 0
                       THEN Raise(Loaded(c, LoadCount), Error("all_failed", {"local"}))
                       ELSE [Loaded(c, LoadCount) EXCEPT !.pc = "local_encode"]]
    /\ UNCHANGED << Config, Index, Env, store >>

\* One attempt of the retried _get_openai_embedding (lines 32-48), and, when
\* it was the last, the except branch of get_embedding up to its await.
openai_attempt(p) ==
    /\ call[p].pc = "openai_attempt"
    /\ \E ok \in BOOLEAN :
         /\ ~openai_client => ~ok
         /\ LET c == call[p]
                text == c.texts[1]
                c1 == [(IF openai_client THEN Sent(c, "openai", c.texts) ELSE c)
                          EXCEPT !.attempts = @ + 1]
                embedding == Vec(c.model_name, text)
            IN  IF ok
                THEN /\ store' = cache_set_embedding(text, c.model_name, embedding)
                     /\ call' = [call EXCEPT ![p] =
                            Return(Wrote(c1, << text >>, c.model_name, << embedding >>),
                                   << embedding >>)]
                ELSE /\ UNCHANGED store
                     /\ call' = [call EXCEPT ![p] =
                            IF RetryAgain(c1.attempts) THEN c1
                            ELSE IF CanFallback(c.model_type, local_model)
                            THEN Caught([c1 EXCEPT !.pc = "fallback_encode"], "openai")
                            ELSE Raise(c1, Error("all_failed", {"openai"}))]
    /\ no_load
    /\ UNCHANGED << Config, Index, Env >>

\* run_in_executor(encode) returns in _get_local_embedding, local route
local_encode(p) ==
    /\ call[p].pc = "local_encode"
    /\ \E ok \in BOOLEAN :
         LET c == Sent(call[p], "local", call[p].texts)
             text == c.texts[1]
             embedding == Vec(local_model_name, text)
         IN  IF ok
             THEN /\ store' = cache_set_embedding(text, c.model_name, embedding)
                  /\ call' = [call EXCEPT ![p] =
                         Return(Wrote(c, << text >>, c.model_name, << embedding >>),
                                << embedding >>)]
             ELSE /\ UNCHANGED store
                  /\ call' = [call EXCEPT ![p] =
                         IF CanFallback(c.model_type, local_model)
                         THEN Caught([c EXCEPT !.pc = "fallback_encode"], "local")
                         ELSE Raise(c, Error("all_failed", {"local"}))]
    /\ no_load
    /\ UNCHANGED << Config, Index, Env >>

\* run_in_executor(encode) returns in the fallback (lines 105-116); a failure
\* is swallowed by `except: pass` and the remote error alone is reported
fallback_encode(p) ==
    /\ call[p].pc = "fallback_encode"
    /\ \E ok \in BOOLEAN :
         LET c == Sent(call[p], "local", call[p].texts)
             text == c.texts[1]
             embedding == Vec(local_model_name, text)
         IN  IF ok
             THEN /\ store' = cache_set_embedding(text, fallback_model, embedding)
                  /\ call' = [call EXCEPT ![p] =
                         Return([Wrote(c, << text >>, fallback_model, << embedding >>)
                                    EXCEPT !.model_name = fallback_model],
                                << embedding >>)]
             ELSE /\ UNCHANGED store
                  /\ call' = [call EXCEPT ![p] = Raise(c, Error("all_failed", {"openai"}))]
    /\ no_load
    /\ UNCHANGED << Config, Index, Env >>


-----------------------------------------------------------------------------
(* EmbeddingService.get_batch_embeddings (lines 118-212) *)

Indices(n) == [i \in 1..n |-> i]

\* uncached_indices, in increasing order (lines 139-152); positions count from 1
UncachedIndices(cached_embeddings) ==
    LET miss(i) == ~Hit(cached_embeddings[i])
    IN  SelectSeq(Indices(Len(cached_embeddings)), miss)

\* only the first uncached text is handed to the provider
UncachedTextsHead(c) ==
    IF c.uncached_indices = << >> THEN << >> ELSE << c.texts[c.uncached_indices[1]] >>

\* uncached_texts
UncachedTexts(c) == [j \in 1..Len(c.uncached_indices) |-> c.texts[c.uncached_indices[j]]]

\* the new embeddings are stored from the front, not at uncached_indices
UpdateResultsFromFront(embeddings, uncached_indices, new_embeddings) ==
    [i \in 1..Len(embeddings) |->
        IF i <= Len(new_embeddings) THEN new_embeddings[i] ELSE embeddings[i]]

\* `for idx, new_emb in zip(uncached_indices, new_embeddings): embeddings[idx] = new_emb`
UpdateResults(embeddings, uncached_indices, new_embeddings) ==
    LET n == Min(Len(uncached_indices), Len(new_embeddings))
        at(i) == {j \in 1..n : uncached_indices[j] = i}
    IN  [i \in 1..Len(embeddings) |->
            IF at(i) = {} THEN embeddings[i]
            ELSE new_embeddings[CHOOSE j \in at(i) : \A k \in at(i) : k <= j]]

\* what a provider returns for a list of texts: one embedding per text
Embed(model, texts) == [j \in 1..Len(texts) |-> Vec(model, texts[j])]

\* the limit itself is rejected too
TooLargeOffByOne(texts) == Len(texts) >= max_batch_size

\* `if len(texts) > settings.max_batch_size` (line 120)
TooLarge(texts) == Len(texts) > max_batch_size

\* `if model_type == "openai" and self.openai_client` (line 157)
UseOpenAI(model_type, client) == model_type = "openai" /\ client

\* Entry up to the first await: size check, resolution, cache mget, the split,
\* and for the local branch _load_local_model (with the fallback's second
\* load attempt when the first one fails on the openai route).
get_batch_embeddings(p, texts, model) ==
    /\ call[p].pc \in {"idle", "done"}
    /\ IF TooLarge(texts)
       THEN /\ call' = [call EXCEPT ![p] =
                   Raise([IdleCall EXCEPT !.op = "batch", !.texts = texts, !.model = model],
                         Error("batch_too_large", {}))]
            /\ no_load
       ELSE LET c0 == Enter("batch", texts, model)
                cached_embeddings == cache_get_batch_embeddings(texts, c0.model_name)
                c == [c0 EXCEPT !.cached = cached_embeddings,
                                !.uncached_indices = UncachedIndices(cached_embeddings),
                                !.embeddings = cached_embeddings]
            IN  IF c.uncached_indices = << >>
                THEN /\ call' = [call EXCEPT ![p] = Return(c, c.embeddings)]
                     /\ no_load
                ELSE IF UseOpenAI(c.model_type, openai_client)
                THEN /\ call' = [call EXCEPT ![p] = [c EXCEPT !.pc = "batch_openai"]]
                     /\ no_load
                ELSE /\ load_local_model
                     /\ call' = [call EXCEPT ![p] =
                            IF local_model' # 0
                            THEN [Loaded(c, LoadCount) EXCEPT !.pc = "batch_encode"]
                            ELSE IF c.model_type = "openai"
                            THEN Raise(Loaded(c, 2), Error("all_batch_failed", {"local"}))
                            ELSE Raise(Loaded(c, 1), Error("batch_failed", {"local"}))]
    /\ UNCHANGED << Config, Index, Env, store >>

\* The batched OpenAI call returns (lines 159-163); on failure the fallback
\* up to its await (lines 184-195)
batch_openai(p) ==
    /\ call[p].pc = "batch_openai"
    /\ \E ok \in BOOLEAN :
         LET c == Sent(call[p], "openai", UncachedTexts(call[p]))
             uncached_texts == UncachedTexts(c)
             new_embeddings == Embed(c.model_name, uncached_texts)
         IN  IF ok
             THEN /\ store' = cache_set_batch_embeddings(uncached_texts, c.model_name,
                                                         new_embeddings)
                  /\ call' = [call EXCEPT ![p] =
                         Return(Wrote(c, uncached_texts, c.model_name, new_embeddings),
                                UpdateResults(c.embeddings, c.uncached_indices,
                                              new_embeddings))]
                  /\ no_load
             ELSE /\ UNCHANGED store
                  /\ load_local_model
                  /\ call' = [call EXCEPT ![p] =
                         IF local_model' # 0
                         THEN Caught([Loaded(c, LoadCount) EXCEPT
                                         !.pc = "batch_fallback_encode"], "openai")
                         ELSE Raise(Loaded(c, LoadCount),
                                    Error("all_batch_failed", {"openai", "local"}))]
    /\ UNCHANGED << Config, Index, Env >>

\* run_in_executor(encode) returns in the try block (lines 170-182); on
\* failure the except branch up to its await
batch_encode(p) ==
    /\ call[p].pc = "batch_encode"
    /\ \E ok \in BOOLEAN :
         LET c == Sent(call[p], "local", UncachedTexts(call[p]))
             uncached_texts == UncachedTexts(c)
             new_embeddings == Embed(local_model_name, uncached_texts)
         IN  IF ok
             THEN /\ store' = cache_set_batch_embeddings(uncached_texts, c.model_name,
                                                         new_embeddings)
                  /\ call' = [call EXCEPT ![p] =
                         Return(Wrote(c, uncached_texts, c.model_name, new_embeddings),
                                UpdateResults(c.embeddings, c.uncached_indices,
                                              new_embeddings))]
                  /\ no_load
             ELSE /\ UNCHANGED store
                  /\ IF c.model_type = "openai"
                     THEN /\ load_local_model
                          /\ call' = [call EXCEPT ![p] =
                                 IF local_model' # 0
                                 THEN Caught([Loaded(c, LoadCount) EXCEPT
                                                 !.pc = "batch_fallback_encode"], "local")
                                 ELSE Raise(Loaded(c, LoadCount),
                                            Error("all_batch_failed", {"local"}))]
                     ELSE /\ no_load
                          /\ call' = [call EXCEPT ![p] =
                                 Raise(c, Error("batch_failed", {"local"}))]
    /\ UNCHANGED << Config, Index, Env >>

\* run_in_executor(encode) returns in the fallback (lines 192-208)
batch_fallback_encode(p) ==
    /\ call[p].pc = "batch_fallback_encode"
    /\ \E ok \in BOOLEAN :
         LET c == Sent(call[p], "local", UncachedTexts(call[p]))
             uncached_texts == UncachedTexts(c)
             new_embeddings == Embed(local_model_name, uncached_texts)
             model_name == embedding_model_local
         IN  IF ok
             THEN /\ store' = cache_set_batch_embeddings(uncached_texts, model_name,
                                                         new_embeddings)
                  /\ call' = [call EXCEPT ![p] =
                         Return([Wrote(c, uncached_texts, model_name, new_embeddings)
                                    EXCEPT !.model_name = model_name],
                                UpdateResults(c.embeddings, c.uncached_indices,
                                              new_embeddings))]
             ELSE /\ UNCHANGED store
                  /\ call' = [call EXCEPT ![p] =
                         Raise(c, Error("all_batch_failed", c.error.causes \cup {"local"}))]
    /\ no_load
    /\ UNCHANGED << Config, Index, Env >>

-----------------------------------------------------------------------------
(* Environment *)

\* the redis server goes away or comes back
store_flip ==
    /\ store_up' = ~store_up
    /\ UNCHANGED << Config, Index, store, loadable, call >>
    /\ no_load

\* the local model's files become loadable or stop being so
loadable_flip ==
    /\ loadable' = ~loadable
    /\ UNCHANGED << Config, Index, store, store_up, call >>
    /\ no_load

\* setex(key, settings.cache_ttl, ...): the entry's TTL runs out
expire(k) ==
    /\ store[k] # NoVec
    /\ store' = [store EXCEPT ![k] = NoVec]
    /\ UNCHANGED << Config, Index, Env, call >>
    /\ no_load

-----------------------------------------------------------------------------
(* VectorSearchEngine (vector_search.py).  Every method is synchronous: it  *)
(* runs on the event loop thread from its first statement to its return,    *)
(* and no handler starts another method before it has returned.             *)

\* most records the index holds in a model run
MaxRecords == 3

\* longest list an add request carries
MaxAdd == 2

\* embeddings handed to the engine: integer stand-ins for float vectors, one
\* of them of another dimension than the index
IndexVectors == {<< 1, 0 >>, << 0, 2 >>, << 1 >>}

\* a record's metadata dict, as its set of items
MetaDicts == {{}, {<< "k", "v" >>}}

Service == << openai_client, local_model, local_model_name, available, store,
              store_up, loadable, call, materialized, load_failed >>

\* __init__ and _initialize_index with nothing persisted (lines 10-26)
EmptyEngine == [dimension |-> vector_dimension, index |-> << >>, texts |-> << >>,
                metadata |-> << >>]

\* the arguments of a read method, each where the method has it
NoArgs == [queries |-> << >>, top_k |-> 0, threshold |-> << 0, 0 >>, n_clusters |-> 0]

\* what a method returns: items (search), lists (batch_search), pairs
\* (get_similar_pairs), clusters (cluster_vectors), n (the numbers of
\* get_stats and of cluster_vectors)
NoResult == [items |-> << >>, lists |-> << >>, pairs |-> << >>, clusters |-> << >>,
             n |-> << >>]

\* no engine method is running and none has been called
IdleSync == [op |-> "none", pc |-> "idle", texts |-> << >>, metadata |-> << >>,
             given |-> << 0, 0, 0 >>, args |-> NoArgs, result |-> NoResult,
             error |-> "none"]

\* an artifact is missing, corrupt (unreadable) or holds what was written
NoFile == [state |-> "missing", index |-> << >>, texts |-> << >>, metadata |-> << >>,
           dimension |-> 0, supplied |-> << >>]

\* nothing persisted at faiss_index_path
NoDisk == [index_file |-> NoFile, sidecar |-> NoFile]

RECURSIVE gcd(_, _)
gcd(a, b) == IF b = 0 THEN a ELSE gcd(b, a % b)

RECURSIVE gcd_all(_)
gcd_all(v) == IF v = << >> THEN 0 ELSE gcd(Head(v), gcd_all(Tail(v)))

\* faiss.normalize_L2 on one row: the unit vector of the row's direction,
\* represented by the smallest integer vector of that direction; a zero row
\* is left as it is
normalize_L2(v) ==
    LET g == gcd_all(v)
    IN  IF g = 0 THEN v ELSE [i \in 1..Len(v) |-> v[i] \div g]

\* np.array(embeddings) is a matrix of the index's width: index.add asserts it
DimensionOk(embeddings, dimension) ==
    \A i \in DOMAIN embeddings : Len(embeddings[i]) = dimension

\* the rows of embeddings differ in length: np.array(...).astype('float32')
\* raises ValueError (line 37)
Ragged(embeddings) ==
    \E i, j \in DOMAIN embeddings : Len(embeddings[i]) # Len(embeddings[j])

\* what the k-th position of an add call supplies for its record
SuppliedAt(embeddings, texts, metadata, k) ==
    [vector |-> embeddings[k], text |-> texts[k],
     metadata |-> IF k <= Len(metadata) THEN metadata[k] ELSE {}]

\* add_vectors up to and including self.index.add(vectors) (lines 28-43).
\* given records the lengths of the three arguments.
add_vectors(embeddings, texts, metadata) ==
    /\ sync.pc = "idle"
    /\ Len(vector_search.index) + Len(embeddings) <= MaxRecords
    /\ Len(vector_search.metadata) + Len(metadata) <= MaxRecords
    /\ LET f == [IdleSync EXCEPT !.op = "add_vectors",
                                 !.given = << Len(embeddings), Len(texts), Len(metadata) >>]
       IN  IF embeddings = << >> \/ texts = << >>
           THEN /\ sync' = f
                /\ UNCHANGED << vector_search, supplied >>
           ELSE IF Len(embeddings) # Len(texts)
           THEN /\ sync' = [f EXCEPT !.error = "ValueError"]
                /\ UNCHANGED << vector_search, supplied >>
           ELSE IF Ragged(embeddings)
           THEN /\ sync' = [f EXCEPT !.error = "ValueError"]
                /\ UNCHANGED << vector_search, supplied >>
           ELSE IF ~DimensionOk(embeddings, vector_search.dimension)
           THEN /\ sync' = [f EXCEPT !.error = "AssertionError"]
                /\ UNCHANGED << vector_search, supplied >>
           ELSE /\ vector_search' =
                      [vector_search EXCEPT !.index =
                          @ \o [i \in 1..Len(embeddings) |-> normalize_L2(embeddings[i])]]
                /\ sync' = [f EXCEPT !.pc = "extend_texts", !.texts = texts,
                                     !.metadata = metadata]
                /\ supplied' = supplied \o
                      [k \in 1..Len(embeddings) |->
                          SuppliedAt(embeddings, texts, metadata, k)]
    /\ UNCHANGED << Service, disk >>

\* self.texts.extend(texts) (line 46)
add_extend_texts ==
    /\ sync.pc = "extend_texts"
    /\ vector_search' = [vector_search EXCEPT !.texts = @ \o sync.texts]
    /\ sync' = [sync EXCEPT !.pc = "extend_metadata"]
    /\ UNCHANGED << Service, disk, supplied >>

\* `if metadata: self.metadata.extend(metadata)` else one {} per text (lines 47-50)
add_extend_metadata ==
    /\ sync.pc = "extend_metadata"
    /\ vector_search' = [vector_search EXCEPT !.metadata =
           IF sync.metadata # << >> THEN @ \o sync.metadata
           ELSE @ \o [i \in 1..Len(sync.texts) |-> {}]]
    /\ sync' = [sync EXCEPT !.pc = "idle", !.texts = << >>, !.metadata = << >>]
    /\ UNCHANGED << Service, disk, supplied >>

\* clear_index: self.index = faiss.IndexFlatIP(self.dimension) (line 211)
clear_index ==
    /\ sync.pc = "idle"
    /\ vector_search' = [vector_search EXCEPT !.index = << >>]
    /\ sync' = [IdleSync EXCEPT !.op = "clear_index", !.pc = "clear_texts"]
    /\ supplied' = << >>
    /\ UNCHANGED << Service, disk >>

\* the texts are kept
clear_texts_kept ==
    /\ sync.pc = "clear_texts"
    /\ sync' = [sync EXCEPT !.pc = "clear_metadata"]
    /\ UNCHANGED << Service, vector_search, disk, supplied >>

\* self.texts = [] (line 212)
clear_texts ==
    /\ sync.pc = "clear_texts"
    /\ vector_search' = [vector_search EXCEPT !.texts = << >>]
    /\ sync' = [sync EXCEPT !.pc = "clear_metadata"]
    /\ UNCHANGED << Service, disk, supplied >>

\* self.metadata = [] (line 213)
clear_metadata ==
    /\ sync.pc = "clear_metadata"
    /\ vector_search' = [vector_search EXCEPT !.metadata = << >>]
    /\ sync' = [sync EXCEPT !.pc = "idle"]
    /\ UNCHANGED << Service, disk, supplied >>

\* get_stats (lines 200-207): total_vectors and dimension (index_type is
\* fixed and memory_usage_mb is computed from the two)
get_stats ==
    /\ sync.pc = "idle"
    /\ sync' = [IdleSync EXCEPT !.op = "get_stats",
                                !.result = [NoResult EXCEPT !.n =
                                               << Len(vector_search.index),
                                                  vector_search.dimension >>]]
    /\ UNCHANGED << Service, vector_search, disk, supplied >>

-----------------------------------------------------------------------------
(* Scores.  Stored vectors and queries are unit vectors, each represented   *)
(* by the smallest integer vector d of its direction, so the inner product  *)
(* of two of them is Dot(d1, d2) / sqrt(Dot(d1, d1) * Dot(d2, d2)).  With   *)
(* non-negative components a score s >= 0 is represented exactly by the     *)
(* reduced fraction << n, m >> = s * s.                                     *)

RECURSIVE DotUpTo(_, _, _)
DotUpTo(u, v, n) == IF n = 0 THEN 0 ELSE u[n] * v[n] + DotUpTo(u, v, n - 1)

Dot(u, v) == DotUpTo(u, v, Min(Len(u), Len(v)))

\* squared length of the unit vector that d represents; a zero row was left
\* as it is by normalize_L2 and has every inner product 0
Norm2(d) == IF Dot(d, d) = 0 THEN 1 ELSE Dot(d, d)

\* the inner product IndexFlatIP computes for two normalized rows
Score(q, v) ==
    LET n == Dot(q, v) * Dot(q, v)
        m == Norm2(q) * Norm2(v)
        g == gcd(n, m)
    IN  << n \div g, m \div g >>

\* s <= t for two scores
ScoreLeq(s, t) == s[1] * t[2] <= t[1] * s[2]

\* a threshold p/q >= 0 is << p, q >>; None is << 0, 0 >>
NoThreshold == << 0, 0 >>

\* `score < threshold`
ScoreBelow(s, threshold) ==
    s[1] * threshold[2] * threshold[2] < threshold[1] * threshold[1] * s[2]

\* the records of rest that no record of rest beats
Best(scores, rest) == {i \in rest : \A o \in rest : ScoreLeq(scores[o], scores[i])}

\* the k lowest records, lowest first
RECURSIVE LowestFirst(_, _, _)
LowestFirst(scores, rest, k) ==
    IF k = 0 THEN {<< >>}
    ELSE UNION {{<< b >> \o t : t \in LowestFirst(scores, rest \ {b}, k - 1)} :
                   b \in {i \in rest : \A o \in rest : ScoreLeq(scores[i], scores[o])}}

\* the k best records of rest, best first, in every order of the ties
RECURSIVE BestFirst(_, _, _)
BestFirst(scores, rest, k) ==
    IF k = 0 THEN {<< >>}
    ELSE UNION {{<< b >> \o t : t \in BestFirst(scores, rest \ {b}, k - 1)} :
                   b \in Best(scores, rest)}

\* faiss IndexFlatIP.search(query, k) for 1 <= k <= ntotal: the ids of k
\* distinct records of highest inner product, best first.  The order among
\* records of equal score is not specified: every outcome is in the set.
IndexSearch(index, query, k) ==
    LET N == Len(index)
        scores == [i \in 0..(N - 1) |-> Score(query, index[i + 1])]
    IN  BestFirst(scores, 0..(N - 1), k)

-----------------------------------------------------------------------------
(* VectorSearchEngine: the read methods *)

\* the min(10, ntotal) of get_similar_pairs as configured for the model runs
\* (the code has 10)
similar_pairs_k == 2

\* the index is never taken for empty
IndexEmptyNever(engine) == FALSE

\* `self.index.ntotal == 0` (lines 54, 84, 114)
IndexEmpty(engine) == Len(engine.index) = 0

\* one formatted result (lines 73-78, 102-107)
ResultEntry(engine, idx, score) ==
    [text |-> engine.texts[idx + 1], score |-> score, index |-> idx,
     metadata |-> IF idx < Len(engine.metadata) THEN engine.metadata[idx + 1] ELSE {}]

\* `threshold is not None and score < threshold` (line 70)
BelowThreshold(score, threshold) ==
    threshold # NoThreshold /\ ScoreBelow(score, threshold)

\* the ids of r that the loop of lines 66-78 keeps, in the order of r
KeptIds(engine, query, r, threshold) ==
    LET kept(idx) == ~BelowThreshold(Score(query, engine.index[idx + 1]), threshold)
    IN  SelectSeq(r, kept)

\* self.texts[idx] raises IndexError
TextMissing(engine, ids) == \E j \in DOMAIN ids : ids[j] >= Len(engine.texts)

FormatResults(engine, query, ids) ==
    [j \in DOMAIN ids |-> ResultEntry(engine, ids[j], Score(query, engine.index[ids[j] + 1]))]

\* index.search asserts the width of the queries and k > 0
SearchRejects(engine, queries, k) ==
    \/ \E j \in DOMAIN queries : Len(queries[j]) # engine.dimension
    \/ k < 1

\* builds of faiss without the assertion on k give back k = 0 columns
SearchReturnsNone(engine, queries, k) ==
    /\ \A j \in DOMAIN queries : Len(queries[j]) = engine.dimension
    /\ k = 0

\* what search returns or raises (lines 52-80)
SearchOutcomes(engine, query_embedding, top_k, threshold) ==
    LET ntotal == Len(engine.index)
        query == normalize_L2(query_embedding)
        k == Min(top_k, ntotal)
        returns(items) == [items |-> items, error |-> "none"]
        raises(e) == [items |-> << >>, error |-> e]
        outcome(r) ==
            LET ids == KeptIds(engine, query, r, threshold)
            IN  IF TextMissing(engine, ids) THEN raises("IndexError")
                ELSE returns(FormatResults(engine, query, ids))
    IN  IF IndexEmpty(engine) THEN {returns(<< >>)}
        ELSE IF SearchRejects(engine, << query_embedding >>, k)
        THEN {raises("AssertionError")}
             \cup (IF SearchReturnsNone(engine, << query_embedding >>, k)
                   THEN {returns(<< >>)} ELSE {})
        ELSE {outcome(r) : r \in IndexSearch(engine.index, query, k)}

\* search
search(query_embedding, top_k, threshold) ==
    /\ sync.pc = "idle"
    /\ \E o \in SearchOutcomes(vector_search, query_embedding, top_k, threshold) :
          sync' = [IdleSync EXCEPT !.op = "search",
                      !.args = [NoArgs EXCEPT !.queries = << query_embedding >>,
                                              !.top_k = top_k, !.threshold = threshold],
                      !.error = o.error,
                      !.result = [NoResult EXCEPT !.items = o.items]]
    /\ UNCHANGED << Service, vector_search, disk, supplied >>

\* what index.search returns for a matrix of queries: one outcome per row
RECURSIVE BatchIndexSearch(_, _, _)
BatchIndexSearch(index, queries, k) ==
    IF queries = << >> THEN {<< >>}
    ELSE {<< r >> \o rest :
            r \in IndexSearch(index, normalize_L2(Head(queries)), k),
            rest \in BatchIndexSearch(index, Tail(queries), k)}

\* zip(scores, indices) pairs row j of the outcome with query j
BatchOrder(queries, j) == j

\* batch_search (lines 82-110); np.array([]) has no second axis for
\* normalize_L2
batch_search(query_embeddings, top_k) ==
    /\ sync.pc = "idle"
    /\ LET f == [IdleSync EXCEPT !.op = "batch_search",
                    !.args = [NoArgs EXCEPT !.queries = query_embeddings,
                                            !.top_k = top_k]]
           ntotal == Len(vector_search.index)
           k == Min(top_k, ntotal)
       IN  IF IndexEmpty(vector_search)
           THEN sync' = [f EXCEPT !.result = [NoResult EXCEPT !.lists =
                            [j \in DOMAIN query_embeddings |-> << >>]]]
           ELSE IF query_embeddings = << >>
           THEN sync' = [f EXCEPT !.error = "IndexError"]
           ELSE IF SearchRejects(vector_search, query_embeddings, k)
           THEN \/ sync' = [f EXCEPT !.error = "AssertionError"]
                \/ /\ SearchReturnsNone(vector_search, query_embeddings, k)
                   /\ sync' = [f EXCEPT !.result = [NoResult EXCEPT !.lists =
                                   [j \in DOMAIN query_embeddings |-> << >>]]]
           ELSE \E rs \in BatchIndexSearch(vector_search.index, query_embeddings, k) :
                   IF \E j \in DOMAIN rs : TextMissing(vector_search, rs[j])
                   THEN sync' = [f EXCEPT !.error = "IndexError"]
                   ELSE sync' = [f EXCEPT !.result = [NoResult EXCEPT !.lists =
                           [j \in DOMAIN rs |->
                               FormatResults(vector_search,
                                   normalize_L2(query_embeddings[BatchOrder(query_embeddings, j)]),
                                   rs[BatchOrder(query_embeddings, j)])]]]
    /\ UNCHANGED << Service, vector_search, disk, supplied >>

\* a record is paired with itself too
PairKeptWithSelf(i, idx, score, threshold) == idx >= i /\ ~ScoreBelow(score, threshold)

\* `if idx > i and score >= threshold` (line 156)
PairKept(i, idx, score, threshold) == idx > i /\ ~ScoreBelow(score, threshold)

\* the pairs one record contributes, in the order of its search outcome
PairsOf(index, i, r, threshold) ==
    LET sc(idx) == Score(index[i + 1], index[idx + 1])
        kept(idx) == PairKept(i, idx, sc(idx), threshold)
        ids == SelectSeq(r, kept)
    IN  [j \in DOMAIN ids |-> << i, ids[j], sc(ids[j]) >>]

\* the loop of lines 149-157 from record i on: every outcome of the searches
RECURSIVE SimilarPairs(_, _, _)
SimilarPairs(index, i, threshold) ==
    IF i >= Len(index) THEN {<< >>}
    ELSE {PairsOf(index, i, r, threshold) \o rest :
            r \in IndexSearch(index, index[i + 1], Min(similar_pairs_k, Len(index))),
            rest \in SimilarPairs(index, i + 1, threshold)}

\* get_similar_pairs (lines 141-159)
get_similar_pairs(threshold) ==
    /\ sync.pc = "idle"
    /\ LET f == [IdleSync EXCEPT !.op = "get_similar_pairs",
                    !.args = [NoArgs EXCEPT !.threshold = threshold]]
       IN  IF Len(vector_search.index) < 2
           THEN sync' = f
           ELSE \E pairs \in SimilarPairs(vector_search.index, 0, threshold) :
                   sync' = [f EXCEPT !.result = [NoResult EXCEPT !.pairs = pairs]]
    /\ UNCHANGED << Service, vector_search, disk, supplied >>

\* `n_clusters=min(n_clusters, self.index.ntotal)` (line 121)
ClusterCount(n_clusters, ntotal) == Min(n_clusters, ntotal)

\* the dict of lines 125-133 as the list of line 136: clusters in the order
\* in which their labels first appear, items in the order of the records
ClustersOf(engine, labels) ==
    LET N == Len(labels)
        isfirst(i) == \A j \in 1..(i - 1) : labels[j] # labels[i]
        firsts == SelectSeq(Indices(N), isfirst)
        items(l) ==
            LET has(i) == labels[i] = l
                pos == SelectSeq(Indices(N), has)
            IN  [j \in DOMAIN pos |->
                    [text |-> engine.texts[pos[j]], index |-> pos[j] - 1,
                     metadata |-> IF pos[j] - 1 < Len(engine.metadata)
                                  THEN engine.metadata[pos[j]] ELSE {}]]
    IN  [j \in DOMAIN firsts |-> [id |-> labels[firsts[j]], items |-> items(labels[firsts[j]])]]

\* cluster_vectors (lines 112-139).  KMeans.fit_predict gives every record
\* one label of 0..k-1; which one is left open.  sklearn rejects k < 1, and
\* k > ntotal.
cluster_vectors(n_clusters) ==
    /\ sync.pc = "idle"
    /\ LET f == [IdleSync EXCEPT !.op = "cluster_vectors",
                    !.args = [NoArgs EXCEPT !.n_clusters = n_clusters]]
           ntotal == Len(vector_search.index)
           k == ClusterCount(n_clusters, ntotal)
       IN  IF IndexEmpty(vector_search)
           THEN sync' = [f EXCEPT !.result = [NoResult EXCEPT !.n = << 0, 0 >>]]
           ELSE IF k < 1 \/ k > ntotal
           THEN sync' = [f EXCEPT !.error = "ValueError"]
           ELSE \E labels \in [1..ntotal -> 0..(k - 1)] :
                   IF Len(vector_search.texts) < ntotal
                   THEN sync' = [f EXCEPT !.error = "IndexError"]
                   ELSE LET clusters == ClustersOf(vector_search, labels)
                        IN  sync' = [f EXCEPT !.result = [NoResult EXCEPT
                                        !.clusters = clusters,
                                        !.n = << k, Len(clusters) >>]]
    /\ UNCHANGED << Service, vector_search, disk, supplied >>

-----------------------------------------------------------------------------
(* VectorSearchEngine: persistence *)

\* open(metadata_path, 'wb') ... pickle.dump, and faiss.write_index
Written(engine, history) ==
    [state |-> "ok", index |-> engine.index, texts |-> engine.texts,
     metadata |-> engine.metadata, dimension |-> engine.dimension,
     supplied |-> history]

\* save_index: faiss.write_index(self.index, save_path) (lines 161-166)
save_index ==
    /\ sync.pc = "idle"
    /\ disk' = [disk EXCEPT !.index_file =
                   [Written(vector_search, supplied) EXCEPT !.texts = << >>,
                                                            !.metadata = << >>]]
    /\ sync' = [IdleSync EXCEPT !.op = "save_index", !.pc = "dump_metadata"]
    /\ UNCHANGED << Service, vector_search, supplied >>

\* save_index: the sidecar (lines 169-175)
save_metadata ==
    /\ sync.pc = "dump_metadata"
    /\ disk' = [disk EXCEPT !.sidecar =
                   [Written(vector_search, supplied) EXCEPT !.index = << >>]]
    /\ sync' = [sync EXCEPT !.pc = "idle"]
    /\ UNCHANGED << Service, vector_search, supplied >>

\* no read raises
LoadFailsNever(d) == FALSE

\* faiss.read_index raises on a missing or unreadable index file, pickle.load
\* on an unreadable sidecar (lines 184-189)
LoadFails(d) == d.index_file.state # "ok" \/ d.sidecar.state = "corrupt"

\* the sidecar is not read
LoadIndexWithoutSidecar(engine, d) ==
    IF LoadFails(d)
    THEN [engine EXCEPT !.index = << >>, !.texts = << >>, !.metadata = << >>]
    ELSE [engine EXCEPT !.index = d.index_file.index]

\* the engine load_index leaves behind (lines 177-198): read_index raises on a
\* missing or unreadable file and pickle.load on an unreadable sidecar, and
\* the except branch starts an empty index
LoadIndex(engine, d) ==
    IF LoadFails(d)
    THEN [engine EXCEPT !.index = << >>, !.texts = << >>, !.metadata = << >>]
    ELSE IF d.sidecar.state = "missing"
    THEN [engine EXCEPT !.index = d.index_file.index]
    ELSE [engine EXCEPT !.index = d.index_file.index,
                        !.texts = d.sidecar.texts,
                        !.metadata = d.sidecar.metadata,
                        !.dimension = d.sidecar.dimension]

\* whose records the loaded vectors are
LoadedHistory(d) ==
    IF LoadFails(d) THEN << >>
    ELSE d.index_file.supplied

\* load_index
load_index ==
    /\ sync.pc = "idle"
    /\ vector_search' = LoadIndex(vector_search, disk)
    /\ supplied' = LoadedHistory(disk)
    /\ sync' = [IdleSync EXCEPT !.op = "load_index"]
    /\ UNCHANGED << Service, disk >>

\* The process stops, at any statement, and a new one starts:
\* vector_search = VectorSearchEngine() (line 216) with __init__ and
\* _initialize_index (lines 10-26)
restart ==
    /\ vector_search' = IF disk.index_file.state = "missing" THEN EmptyEngine
                        ELSE LoadIndex(EmptyEngine, disk)
    /\ supplied' = IF disk.index_file.state = "missing" THEN << >>
                   ELSE LoadedHistory(disk)
    /\ sync' = [IdleSync EXCEPT !.op = "init"]
    /\ UNCHANGED << Service, disk >>

\* an artifact is deleted, or damaged so that it cannot be read
damage(file, how) ==
    /\ disk[file].state = "ok"
    /\ disk' = [disk EXCEPT ![file] = [NoFile EXCEPT !.state = how]]
    /\ UNCHANGED << Service, vector_search, sync, supplied >>

-----------------------------------------------------------------------------
(* Specifications *)

\* EmbeddingService.__init__ and CacheManager.__init__: the client exists iff
\* an API key is configured, the model is not loaded, and the cache is
\* available iff the ping at construction succeeded.
Init ==
    /\ openai_client \in BOOLEAN
    /\ local_model = 0
    /\ local_model_name = "None"
    /\ store_up \in BOOLEAN
    /\ available = store_up
    /\ store = [k \in Keys |-> NoVec]
    /\ loadable \in BOOLEAN
    /\ call = [p \in Handlers |-> IdleCall]
    /\ materialized = 0
    /\ load_failed = FALSE
    /\ vector_search = EmptyEngine
    /\ sync = IdleSync
    /\ disk = NoDisk
    /\ supplied = << >>

\* one request handler serving one request after another, over a redis
\* keyspace with TTLs and an environment that changes at any time
Next ==
    \/ \E t \in Texts, m \in ModelArgs : get_embedding(1, t, m)
    \/ openai_attempt(1)
    \/ local_encode(1)
    \/ fallback_encode(1)
    \/ \E ts \in TextLists, m \in ModelArgs : get_batch_embeddings(1, ts, m)
    \/ batch_openai(1)
    \/ batch_encode(1)
    \/ batch_fallback_encode(1)
    \/ store_flip
    \/ loadable_flip
    \/ \E k \in Keys : expire(k)

Spec == Init /\ [][Next]_vars

\* Concurrent request handlers on the one event loop: any handler whose
\* awaited call has returned runs its next step.
ConcTexts == {"a"}
ConcArgs == {"", "all-MiniLM-L6-v2"}
ConcLists == {<< "a" >>, << "a", "a" >>}

NextConc ==
    \/ \E p \in Handlers, t \in ConcTexts, m \in ConcArgs : get_embedding(p, t, m)
    \/ \E p \in Handlers : openai_attempt(p)
    \/ \E p \in Handlers : local_encode(p)
    \/ \E p \in Handlers : fallback_encode(p)
    \/ \E p \in Handlers, ts \in ConcLists, m \in ConcArgs : get_batch_embeddings(p, ts, m)
    \/ \E p \in Handlers : batch_openai(p)
    \/ \E p \in Handlers : batch_encode(p)
    \/ \E p \in Handlers : batch_fallback_encode(p)
    \/ store_flip
    \/ loadable_flip
    \/ \E k \in Keys : expire(k)

SpecConc == Init /\ [][NextConc]_vars

\* One caller of get_embedding and one caller of get_batch_embeddings with
\* one-text lists, in an environment that does not change: the client, the
\* loadability of the local model and the state of the store stay as they
\* were at construction.
NextPair ==
    \/ \E t \in ConcTexts, m \in ModelArgs : get_embedding(1, t, m)
    \/ openai_attempt(1)
    \/ local_encode(1)
    \/ fallback_encode(1)
    \/ \E t \in ConcTexts, m \in ModelArgs : get_batch_embeddings(2, << t >>, m)
    \/ batch_openai(2)
    \/ batch_encode(2)
    \/ batch_fallback_encode(2)

SpecPair == Init /\ [][NextPair]_vars

\* A process that starts over a redis keyspace an earlier process may have
\* written, serving callers that name local models of their own choice.
StoreNames == {"all-MiniLM-L6-v2", "x:all-MiniLM-L6-v2"}
StoreLists == {<< "a" >>, << "a:x", "a" >>}
StoreKeys == {generate_key(t, m) : t \in Texts, m \in StoreNames}
NoEntries == [k \in StoreKeys |-> NoVec]

InitStore ==
    /\ openai_client = FALSE
    /\ local_model = 0
    /\ local_model_name = "None"
    /\ store_up \in BOOLEAN
    /\ available = store_up
    /\ store \in {NoEntries,
                  [NoEntries EXCEPT ![generate_key("a", embedding_model_local)] =
                       Vec(embedding_model_local, "a")]}
    /\ loadable = TRUE
    /\ call = [p \in Handlers |-> IdleCall]
    /\ materialized = 0
    /\ load_failed = FALSE
    /\ vector_search = EmptyEngine
    /\ sync = IdleSync
    /\ disk = NoDisk
    /\ supplied = << >>

NextStore ==
    \/ \E t \in Texts, m \in StoreNames : get_embedding(1, t, m)
    \/ local_encode(1)
    \/ \E ts \in StoreLists, m \in StoreNames : get_batch_embeddings(1, ts, m)
    \/ batch_encode(1)
    \/ store_flip
    \/ \E k \in StoreKeys : expire(k)

SpecStore == InitStore /\ [][NextStore]_vars

\* The request handlers of the vector index (main.py lines 159-227) on the
\* one event loop.  The index uses nothing of the embedding service, whose
\* state is held at one configuration.
InitIndex ==
    /\ Init
    /\ ~openai_client
    /\ ~store_up
    /\ ~loadable

NextIndex ==
    \/ \E embeddings \in SeqsUpTo(IndexVectors, MaxAdd), texts \in SeqsUpTo(Texts, MaxAdd),
          metadata \in SeqsUpTo(MetaDicts, MaxAdd) : add_vectors(embeddings, texts, metadata)
    \/ add_extend_texts
    \/ add_extend_metadata
    \/ clear_index
    \/ clear_texts
    \/ clear_metadata
    \/ get_stats
    \/ search(<< 1, 0 >>, MaxRecords, NoThreshold)

SpecIndex == InitIndex /\ [][NextIndex]_vars

\* The read methods of the engine over indexes of every content: records
\* are added (or the index cleared) and then read, one specification for
\* each read method.  The vectors have no negative component, so that no
\* inner product is negative.
SearchVectors == {<< 2, 0 >>, << 1, 1 >>, << 0, 0 >>}

\* None and 0.75
Thresholds == {NoThreshold, << 3, 4 >>}

MaxQueries == 2

BatchQueries == {<< 1, 0 >>, << 2, 2 >>}

AddOne(vectors) ==
    \/ \E v \in vectors : add_vectors(<< v >>, << "a" >>, << >>)
    \/ add_extend_texts
    \/ add_extend_metadata
    \/ clear_index
    \/ clear_texts
    \/ clear_metadata

NextSearch ==
    \/ AddOne(SearchVectors)
    \/ \E q \in SearchVectors, top_k \in {0, 2, MaxRecords + 1}, threshold \in Thresholds :
          search(q, top_k, threshold)

SpecSearch == InitIndex /\ [][NextSearch]_vars

NextBatch ==
    \/ AddOne(BatchQueries)
    \/ \E qs \in SeqsUpTo(BatchQueries, MaxQueries), top_k \in {0, 1, MaxRecords} :
          batch_search(qs, top_k)

SpecBatch == InitIndex /\ [][NextBatch]_vars

NextPairs ==
    \/ AddOne(SearchVectors)
    \/ \E threshold \in {<< 1, 2 >>, << 1, 1 >>} : get_similar_pairs(threshold)

SpecPairs == InitIndex /\ [][NextPairs]_vars

\* The callers add one record at a time, of two kinds in turn: records at
\* even indices have no metadata, records at odd indices have.
AddAlternating ==
    IF Len(vector_search.index) % 2 = 0
    THEN add_vectors(<< << 1, 0 >> >>, << "a" >>, << >>)
    ELSE add_vectors(<< << 1, 1 >> >>, << "a:x" >>, << {<< "k", "v" >>} >>)

\* Adds of vectors of the index's dimension and of other dimensions, as a
\* model of another dimension produces them.
DimVectors == {<< 1, 0 >>, << 0, 1 >>, << 1 >>, << 1, 0, 0 >>}

NextDim ==
    \/ \E embeddings \in SeqsUpTo(DimVectors, MaxAdd), texts \in SeqsUpTo({"a"}, MaxAdd) :
          add_vectors(embeddings, texts, << >>)
    \/ add_extend_texts
    \/ add_extend_metadata
    \/ clear_index
    \/ clear_texts
    \/ clear_metadata

SpecDim == InitIndex /\ [][NextDim]_vars

\* The engine and its two files: records are added, the index is saved in
\* its two writes, loaded again, the process restarts at any statement, and
\* the files are deleted or damaged.
NextPersist ==
    \/ AddAlternating
    \/ add_extend_texts
    \/ add_extend_metadata
    \/ clear_index
    \/ clear_texts
    \/ clear_metadata
    \/ save_index
    \/ save_metadata
    \/ load_index
    \/ restart
    \/ \E file \in {"index_file", "sidecar"}, how \in {"missing", "corrupt"} :
          damage(file, how)

SpecPersist == InitIndex /\ [][NextPersist]_vars

\* The engine and its two files when nothing but the process itself touches
\* the files: records are added, the index is cleared and saved, and the
\* process stops at any statement, between the two writes of save_index
\* included, and starts again.
NextCrash ==
    \/ AddAlternating
    \/ add_extend_texts
    \/ add_extend_metadata
    \/ clear_index
    \/ clear_texts
    \/ clear_metadata
    \/ save_index
    \/ save_metadata
    \/ restart

SpecCrash == InitIndex /\ [][NextCrash]_vars

\* The read methods with arguments of every kind, on an index that is filled,
\* cleared, saved, and loaded from a file that may have been deleted or
\* damaged.
NextEmpty ==
    \/ AddAlternating
    \/ add_extend_texts
    \/ add_extend_metadata
    \/ clear_index
    \/ clear_texts
    \/ clear_metadata
    \/ save_index
    \/ save_metadata
    \/ load_index
    \/ \E how \in {"missing", "corrupt"} : damage("index_file", how)
    \/ \E q \in {<< 1, 0 >>, << 1 >>, << >>}, top_k \in {-1, 0, MaxRecords},
          threshold \in Thresholds : search(q, top_k, threshold)
    \/ \E qs \in {<< >>, << << 1, 0 >>, << 1 >> >>}, top_k \in {0, MaxRecords} :
          batch_search(qs, top_k)
    \/ \E threshold \in {<< 0, 1 >>, << 1, 1 >>} : get_similar_pairs(threshold)
    \/ \E n_clusters \in {-1, 0, 1} : cluster_vectors(n_clusters)

SpecEmpty == InitIndex /\ [][NextEmpty]_vars

\* Clustering, on indexes of up to MaxClustered records that were added or
\* loaded at a restart.
MaxClustered == 2

NextCluster ==
    \/ /\ Len(vector_search.index) < MaxClustered
       /\ \E v \in {<< 1, 0 >>, << 1, 1 >>} : add_vectors(<< v >>, << "a" >>, << >>)
    \/ add_extend_texts
    \/ add_extend_metadata
    \/ clear_index
    \/ clear_texts
    \/ clear_metadata
    \/ save_index
    \/ save_metadata
    \/ restart
    \/ \E n_clusters \in 1..(MaxClustered + 1) : cluster_vectors(n_clusters)

SpecCluster == InitIndex /\ [][NextCluster]_vars

TypeOK ==
    /\ openai_client \in BOOLEAN
    /\ local_model \in 0..2
    /\ store \in [Keys -> {NoVec} \cup {Vec(m, t) : m \in ModelNames, t \in Texts}]
    /\ \A p \in Handlers : call[p].pc \in
          {"idle", "done", "openai_attempt", "local_encode", "fallback_encode",
           "batch_openai", "batch_encode", "batch_fallback_encode"}


-----------------------------------------------------------------------------
(* Properties *)

\* handler p enters a new call of kind op in this step
Enters(p, op) ==
    /\ call[p].pc \in {"idle", "done"}
    /\ call'[p] # call[p]
    /\ call'[p].op = op

\* the cache answers: it was available at construction and the store is up
CacheReachable == available /\ store_up

\* C1: a get_embedding(t, m) entered while the reachable cache holds an entry
\* for (t, resolved name of m) returns that entry and the resolved name at
\* once, calls no provider and touches no model; and the vector a hit
\* returned is the one the cache still holds for its key while the entry
\* lasts, so the same call made again returns the identical vector.
C1_CacheHitReturnsEntry ==
    [][\A p \in Handlers :
         LET c == call'[p]
             v == store[generate_key(c.texts[1], model_name_of(c.model))]
             before == call[p]
             held == store[generate_key(before.texts[1], model_name_of(before.model))]
         IN  /\ (Enters(p, "single") /\ CacheReachable /\ v # NoVec)
                => /\ Succeeded(c)
                   /\ c.embeddings = << v >>
                   /\ c.model_name = model_name_of(c.model)
                   /\ c.sent = << >>
                   /\ c.loads = 0
                   /\ c.attempts = 0
                   /\ local_model' = local_model
                   /\ store' = store
             /\ ( /\ before.op = "single"
                  /\ Succeeded(before)
                  /\ before.sent = << >>
                  /\ held # NoVec )
                => before.embeddings = << held >>
      ]_vars

\* C1 witness: a call answered from the cache with a vector that the
\* resolved model itself would not have computed
C1_Witness ==
    \E p \in Handlers :
        LET c == call[p]
        IN  /\ c.op = "single"
            /\ Succeeded(c)
            /\ c.cached # << >>
            /\ c.cached[1] # NoVec
            /\ c.embeddings = c.cached
            /\ c.sent = << >>
            /\ c.embeddings[1] # Vec(c.model_name, c.texts[1])

\* C2: in a get_embedding call the retried remote function runs at most 3
\* times and the API is called at most 3 times; a call that holds a result
\* has ended; on the remote route the local provider is reached only after
\* the third failed attempt and after every remote call; the local provider
\* is called at most once; so a call makes at most 4 provider calls.
C2_BoundedAttempts ==
    \A p \in Handlers :
        LET c == call[p]
        IN  c.op = "single"
            => /\ c.attempts <= 3
               /\ RemoteCalls(c) <= 3
               /\ RemoteCalls(c) <= c.attempts
               /\ LocalCalls(c) <= 1
               /\ Len(c.sent) <= 4
               /\ (c.embeddings # << >> \/ c.writes # << >>) => c.pc = "done"
               /\ c.pc = "openai_attempt" => c.attempts < 3 /\ LocalCalls(c) = 0
               /\ c.model_type = "local" => RemoteCalls(c) = 0 /\ c.attempts = 0
               /\ (c.model_type = "openai" /\ (LocalCalls(c) > 0 \/ c.pc = "fallback_encode"))
                  => c.attempts = 3
               /\ \A i, j \in DOMAIN c.sent :
                     (c.sent[i].to = "local" /\ c.sent[j].to = "openai") => j < i

\* C2 witness: three failed remote calls, then one local call
C2_Witness ==
    \E p \in Handlers :
        LET c == call[p]
        IN  /\ c.op = "single"
            /\ Finished(c)
            /\ RemoteCalls(c) = 3
            /\ LocalCalls(c) = 1


\* C3: when the third remote attempt of a get_embedding call fails while the
\* local model is loaded, or not loaded but loadable, the call goes on to the
\* local provider instead of failing.
C3_FallbackWhenLoadable ==
    [][\A p \in Handlers :
         ( /\ call[p].op = "single"
           /\ call[p].pc = "openai_attempt"
           /\ call[p].attempts = 2
           /\ call'[p].attempts = 3
           /\ ~Succeeded(call'[p])
           /\ (local_model # 0 \/ loadable) )
         => call'[p].pc = "fallback_encode"
      ]_vars

\* a get_embedding call that fell back to the local provider and succeeded
FellBack(c) ==
    /\ c.op = "single"
    /\ Succeeded(c)
    /\ c.model_type = "openai"
    /\ LocalCalls(c) = 1

\* C4: a get_embedding(t) that succeeds through the fallback returns the
\* local model's name, writes the returned vector under (t, local name) and
\* nothing else (with a reachable cache the store then holds it there, and
\* the entry under (t, remote name) is as before); a get_embedding(t, local
\* name) entered next, with that entry in the reachable cache, returns the
\* same vector without calling a provider.
C4_FallbackCachedUnderLocalName ==
    [][\A p \in Handlers :
         LET b == call[p]
             c == call'[p]
             t == b.texts[1]
         IN  /\ (b.op = "single" /\ b.pc = "fallback_encode" /\ Succeeded(c))
                => /\ c.model_name = embedding_model_local
                   /\ Len(c.embeddings) = 1
                   /\ c.writes = << [texts |-> << t >>, model |-> embedding_model_local,
                                     embeddings |-> c.embeddings] >>
                   /\ CacheReachable
                        => store'[generate_key(t, embedding_model_local)] = c.embeddings[1]
                   /\ store'[generate_key(t, model_name_of(b.model))]
                        = store[generate_key(t, model_name_of(b.model))]
             /\ ( /\ FellBack(b)
                  /\ Enters(p, "single")
                  /\ c.texts = b.texts
                  /\ c.model = embedding_model_local
                  /\ CacheReachable
                  /\ store[generate_key(t, embedding_model_local)] = b.embeddings[1] )
                => /\ Succeeded(c)
                   /\ c.sent = << >>
                   /\ c.embeddings = b.embeddings
                   /\ c.model_name = embedding_model_local
      ]_vars

\* C4 witness: a fallen-back call whose vector the store holds under the
\* local name, with nothing under the remote name
C4_Witness ==
    \E p \in Handlers :
        LET c == call[p]
        IN  /\ FellBack(c)
            /\ RemoteCalls(c) = 3
            /\ store[generate_key(c.texts[1], embedding_model_local)] = c.embeddings[1]
            /\ store[generate_key(c.texts[1], model_name_of(c.model))] = NoVec

\* C5: a call whose remote provider failed and whose local fallback failed
\* too ends with an 'all embedding methods failed' error that carries the
\* remote cause and the local cause.
C5_ErrorNamesBothCauses ==
    \A p \in Handlers :
        LET c == call[p]
        IN  ( /\ Failed(c)
              /\ c.model_type = "openai"
              /\ RemoteCalls(c) >= 1
              /\ (LocalCalls(c) >= 1 \/ c.op = "batch") )
            => /\ c.error.kind \in {"all_failed", "all_batch_failed"}
               /\ {"openai", "local"} \subseteq c.error.causes

\* load attempts (SentenceTransformer constructions begun) handler p makes in this step
LoadAttempts(p) ==
    IF call'[p] = call[p] THEN 0
    ELSE call'[p].loads - (IF Running(call[p]) THEN call[p].loads ELSE 0)

\* C6: once a load has succeeded, and once a load attempt has failed, no
\* request makes another load attempt.
C6_LoadMemoized ==
    [][\A p \in Handlers : (local_model # 0 \/ load_failed) => LoadAttempts(p) = 0]_vars

\* C8: a get_batch_embeddings with more texts than max_batch_size fails with
\* the size error in its first step, having read no cache result, called no
\* provider, loaded no model, written nothing and returned nothing; a batch
\* of at most max_batch_size texts is not rejected for its size.
C8_OversizeRejectedFirst ==
    [][\A p \in Handlers :
         LET c == call'[p]
         IN  Enters(p, "batch")
             => /\ Len(c.texts) > max_batch_size
                   => /\ Failed(c)
                      /\ c.error.kind = "batch_too_large"
                      /\ c.cached = << >>
                      /\ c.sent = << >>
                      /\ c.writes = << >>
                      /\ c.loads = 0
                      /\ c.embeddings = << >>
                      /\ store' = store
                      /\ local_model' = local_model
                      /\ load_failed' = load_failed
                /\ Len(c.texts) <= max_batch_size => c.error.kind # "batch_too_large"
      ]_vars

\* C8 witness: a rejected oversize batch whose first text had a cache entry
C8_Witness ==
    \E p \in Handlers :
        LET c == call[p]
        IN  /\ c.op = "batch"
            /\ Len(c.texts) = max_batch_size + 1
            /\ c.error.kind = "batch_too_large"
            /\ CacheReachable
            /\ store[generate_key(c.texts[1], model_name_of(c.model))] # NoVec

\* C8 witness of the boundary: a batch of exactly max_batch_size texts that succeeded
C8_BoundaryReached ==
    \E p \in Handlers :
        /\ call[p].op = "batch"
        /\ Len(call[p].texts) = max_batch_size
        /\ Succeeded(call[p])

\* C9: in a get_batch_embeddings call every provider call carries exactly
\* the texts at the cache-miss positions in their order, at most one remote
\* call and at most one local batch-encode call are made, and none when
\* every text is a cache hit.
C9_OneBatchedCall ==
    \A p \in Handlers :
        LET c == call[p]
        IN  c.op = "batch"
            => /\ RemoteCalls(c) <= 1
               /\ LocalCalls(c) <= 1
               /\ \A i \in DOMAIN c.sent : c.sent[i].texts = UncachedTexts(c)
               /\ c.uncached_indices = << >> => c.sent = << >>
               /\ \A i \in DOMAIN c.cached :
                     (c.cached[i] = NoVec)
                        <=> (\E j \in DOMAIN c.uncached_indices : c.uncached_indices[j] = i)
               /\ \A j, k \in DOMAIN c.uncached_indices :
                     j < k => c.uncached_indices[j] < c.uncached_indices[k]

\* the model that computed the new vectors of a finished batch call
Producer(c) ==
    IF c.sent[Len(c.sent)].to = "openai" THEN model_name_of(c.model)
    ELSE embedding_model_local

\* C10: a successful get_batch_embeddings returns as many vectors as texts;
\* position i holds the cached vector where the lookup hit, and otherwise
\* the vector the provider that served the call computed for texts[i]; no
\* position is absent; a failed call returns nothing.
C10_BatchResultComplete ==
    \A p \in Handlers :
        LET c == call[p]
        IN  (c.op = "batch" /\ Finished(c))
            => IF Succeeded(c)
               THEN /\ Len(c.embeddings) = Len(c.texts)
                    /\ Len(c.cached) = Len(c.texts)
                    /\ \A i \in DOMAIN c.texts :
                          /\ c.embeddings[i] # NoVec
                          /\ c.cached[i] # NoVec => c.embeddings[i] = c.cached[i]
                          /\ c.cached[i] = NoVec
                                => c.embeddings[i] = Vec(Producer(c), c.texts[i])
               ELSE c.embeddings = << >>

\* C10 witness: a successful batch with a miss before a hit, the hit holding
\* a vector other than the one the serving provider computes
C10_Witness ==
    \E p \in Handlers :
        LET c == call[p]
        IN  /\ c.op = "batch"
            /\ Succeeded(c)
            /\ Len(c.texts) = 2
            /\ c.cached[1] = NoVec
            /\ c.cached[2] # NoVec
            /\ c.embeddings[2] # Vec(Producer(c), c.texts[2])


\* frames waiting for, or done with, an encode on the local model
UsesLocalModel(c) ==
    \/ c.pc \in {"local_encode", "fallback_encode", "batch_encode", "batch_fallback_encode"}
    \/ LocalCalls(c) > 0

\* C7: under every interleaving of concurrent single and batch requests the
\* local model is built at most once, and every request that encodes finds
\* that one instance in self.local_model.
C7_SingleMaterialization ==
    /\ materialized <= 1
    /\ local_model \in {0, 1}
    /\ \A p \in Handlers : UsesLocalModel(call[p]) => (local_model = 1 /\ materialized = 1)

\* C7 witness: two requests, a single and a batch, wait on the local model at
\* the same time, one built it and the other found it built
C7_Witness ==
    \E p, q \in Handlers :
        /\ call[p].pc \in {"local_encode", "fallback_encode"}
        /\ call[q].pc \in {"batch_encode", "batch_fallback_encode"}
        /\ call[p].loads + call[q].loads = 1
        /\ materialized = 1


\* positions of a call whose cache lookup found nothing, and their texts
MissPositions(c) == {i \in DOMAIN c.cached : c.cached[i] = NoVec}

MissTexts(c) ==
    LET miss(i) == c.cached[i] = NoVec
        idx == SelectSeq(Indices(Len(c.cached)), miss)
    IN  [j \in 1..Len(idx) |-> c.texts[idx[j]]]

\* C11: a batch call hands the whole miss subset to a provider in every
\* provider call; once the batched remote call has failed, that subset goes
\* to the local model in one batched call; and in a successful result all
\* newly computed vectors come from one provider (the local model after a
\* fallback), each for its own text.
C11_BatchFallbackAllOrNothing ==
    \A p \in Handlers :
        LET c == call[p]
        IN  c.op = "batch" =>
              /\ \A k \in DOMAIN c.sent : c.sent[k].texts = MissTexts(c)
              /\ RemoteCalls(c) <= 1
              /\ (RemoteCalls(c) = 1 /\ Len(c.sent) >= 2) =>
                    /\ Len(c.sent) = 2
                    /\ c.sent[1].to = "openai"
                    /\ c.sent[2].to = "local"
              /\ Succeeded(c) =>
                    /\ \A i, j \in MissPositions(c) :
                          /\ c.embeddings[i].by = c.embeddings[j].by
                          /\ c.embeddings[i].by # "None"
                          /\ c.embeddings[i].of = c.texts[i]
                    /\ (RemoteCalls(c) = 1 /\ LocalCalls(c) = 1) =>
                          \A i \in MissPositions(c) :
                              c.embeddings[i].by = embedding_model_local

\* a batch with two misses whose remote call failed is served by the local model
C11_Witness ==
    \E p \in Handlers :
        /\ call[p].op = "batch"
        /\ Succeeded(call[p])
        /\ Cardinality(MissPositions(call[p])) >= 2
        /\ RemoteCalls(call[p]) = 1
        /\ LocalCalls(call[p]) = 1

\* C13: a batch call whose miss subset was handed to the local model after
\* the batched remote call failed has made stop_after_attempt attempts of
\* that remote call, as the single path does.
C13_BatchRemoteRetried ==
    \A p \in Handlers :
        LET c == call[p]
        IN  (c.op = "batch" /\ RemoteCalls(c) >= 1
                /\ (LocalCalls(c) >= 1 \/ c.pc = "batch_fallback_encode"))
            => RemoteCalls(c) = stop_after_attempt

\* C14: the model name a successful batch call returns is that of the model
\* that computed its new vectors, and the resolved name when every text was
\* a cache hit.
C14_EffectiveNameIsComputingModel ==
    \A p \in Handlers :
        LET c == call[p]
        IN  (c.op = "batch" /\ Succeeded(c) /\ c.texts # << >>) =>
              IF MissPositions(c) = {}
              THEN c.model_name = model_name_of(c.model)
              ELSE \A i \in MissPositions(c) : c.embeddings[i].by = c.model_name

\* handler p's call returns or raises in this step
Completes(p) == call'[p] # call[p] /\ Finished(call'[p])

\* the keys a successful call's misses are cached under
MissKeys(c) == {generate_key(c.texts[i], c.model_name) : i \in MissPositions(c)}

\* C15: when a batch call with misses succeeds while the cache is reachable,
\* the step that receives the provider's result makes the call's only cache
\* write, one batched write of the miss subset under the returned model
\* name, after which every miss text's entry holds the returned vector and
\* every other entry (the hits' among them) is as before; a call that is
\* still running has written nothing, and a failing call of either method
\* writes nothing.
C15_BatchWriteBack ==
    [][ \A p \in Handlers :
          LET b == call[p]
              c == call'[p]
          IN  /\ (Completes(p) /\ c.op = "batch" /\ Succeeded(c)
                     /\ MissPositions(c) # {} /\ CacheReachable) =>
                    /\ b.writes = << >>
                    /\ Len(c.writes) = 1
                    /\ c.writes[1].texts = MissTexts(c)
                    /\ c.writes[1].model = c.model_name
                    /\ Len(c.sent) = Len(b.sent) + 1
                    /\ \A i \in MissPositions(c) :
                          store'[generate_key(c.texts[i], c.model_name)] = c.embeddings[i]
                    /\ \A k \in Keys \ MissKeys(c) : store'[k] = store[k]
              /\ Running(c) => c.writes = << >>
              /\ (Completes(p) /\ Failed(c)) => (c.writes = << >> /\ store' = store)
      ]_vars

\* a successful batch with one hit and one miss has its miss in the cache
C15_Witness ==
    \E p \in Handlers :
        LET c == call[p]
        IN  /\ c.op = "batch" /\ Succeeded(c)
            /\ CacheReachable
            /\ Len(c.writes) = 1
            /\ MissPositions(c) # {}
            /\ MissPositions(c) # DOMAIN c.cached
            /\ \A i \in MissPositions(c) :
                  store[generate_key(c.texts[i], c.model_name)] = c.embeddings[i]

\* the resolved route of frame c has no provider: the remote route without a
\* client, or the local route whose model is neither loaded nor loadable
NoProvider(c) ==
    \/ c.model_type = "openai" /\ ~openai_client
    \/ c.model_type = "local" /\ local_model = 0 /\ ~loadable /\ c.loads >= 1

\* C16: a call whose resolved route has no provider (and whose lookup missed)
\* fails at once and for good: the missing provider is attempted at most once
\* and the call is over with that attempt (no backoff wait, no retry), no
\* provider is called in its place, the call never succeeds and writes
\* nothing to the cache.
C16_NoProviderFailsAtOnce ==
    \A p \in Handlers :
        LET c == call[p]
        IN  (c.op \in {"single", "batch"} /\ MissPositions(c) # {} /\ NoProvider(c)) =>
              /\ c.attempts <= 1
              /\ c.sent = << >>
              /\ c.writes = << >>
              /\ ~Succeeded(c)
              /\ Running(c) => c.attempts = 0

ErrorKinds == {"none", "caught", "all_failed", "batch_too_large", "all_batch_failed",
               "batch_failed"}

\* C17: the cache is fail-open.  While the cache is unavailable or the store
\* raises, a call's lookup yields one absent per text in the order of the
\* texts, exactly what an empty cache yields, so the call goes on as a call
\* with an empty cache does (it cannot return from a hit); a handler's write
\* leaves the keyspace as it is; and the only errors a call ever holds or
\* raises are validation and provider errors.
C17_CacheFailOpen ==
    [][ \A p \in Handlers :
          LET c == call'[p]
          IN  /\ ((Enters(p, "single") \/ Enters(p, "batch")) /\ ~CacheReachable
                     /\ c.model_type # "none") =>
                    /\ Len(c.cached) = Len(c.texts)
                    /\ \A i \in DOMAIN c.cached : c.cached[i] = NoVec
                    /\ c.texts # << >> => ~Succeeded(c)
              /\ (call' # call /\ ~CacheReachable) => store' = store
              /\ c.error.kind \in ErrorKinds
              /\ c.error.causes \subseteq {"openai", "local"}
      ]_vars

\* a call has just looked up a text whose entry exists and was told it is
\* absent, the store being down
C17_Witness ==
    \E p \in Handlers :
        LET c == call[p]
        IN  /\ Running(c) /\ c.sent = << >>
            /\ available /\ ~store_up
            /\ \E i \in DOMAIN c.cached :
                  /\ c.cached[i] = NoVec
                  /\ store[generate_key(c.texts[i], c.model_name)] # NoVec

\* the route and name the resolution rules give for a requested model
ResolvedType(model) ==
    IF model # "" /\ Len(model) >= 14 /\ SubSeq(model, 1, 14) = "text-embedding"
    THEN "openai"
    ELSE IF model # "" THEN "local"
    ELSE IF openai_client THEN "openai" ELSE "local"

ResolvedName(model) ==
    IF model # "" THEN model
    ELSE IF openai_client THEN "text-embedding-3-small" ELSE "all-MiniLM-L6-v2"

\* C18: both methods resolve the model alike: a name starting with
\* 'text-embedding' is the remote route under that name, any other name the
\* local route under that name, no name the remote route under the configured
\* remote name when a client is configured and otherwise the local route
\* under the configured local name; the cache is looked up under that name.
C18_ModelResolution ==
    [][ \A p \in Handlers :
          LET c == call'[p]
          IN  ((Enters(p, "single") \/ Enters(p, "batch")) /\ c.model_type # "none") =>
                /\ c.model_type = ResolvedType(c.model)
                /\ c.model_name = ResolvedName(c.model)
                /\ Len(c.cached) = Len(c.texts)
                /\ CacheReachable =>
                      \A i \in DOMAIN c.texts :
                          c.cached[i] = store[generate_key(c.texts[i], ResolvedName(c.model))]
      ]_vars

\* without a client a call that names no model is on the local route under
\* the configured local name and found its text cached under that name
C18_Witness ==
    \E p \in Handlers :
        LET c == call[p]
        IN  /\ c.op \in {"single", "batch"}
            /\ c.model = "" /\ ~openai_client
            /\ c.model_type = "local"
            /\ c.model_name = "all-MiniLM-L6-v2"
            /\ c.sent = << >>
            /\ c.cached # << >>
            /\ \A i \in DOMAIN c.cached : c.cached[i] # NoVec

\* what a finished call tells about the provider state it ran in
RemoteUp(c) ==
    /\ Succeeded(c) /\ RemoteCalls(c) = 1 /\ LocalCalls(c) = 0
    /\ c.op = "single" => c.attempts = 1

RemoteDown(c) ==
    /\ openai_client
    /\ Failed(c) \/ LocalCalls(c) >= 1
    /\ IF c.op = "single" THEN RemoteCalls(c) = stop_after_attempt
       ELSE RemoteCalls(c) = 1

EncodeOk(c) == LocalCalls(c) <= 1 /\ (LocalCalls(c) = 1 => Succeeded(c))

SawLoaded(c) == LocalCalls(c) >= 1 /\ c.loads = 0

SawUnloaded(c) ==
    \/ c.loads >= 1
    \/ /\ c.op = "single" /\ c.model_type = "openai"
       /\ Failed(c) /\ LocalCalls(c) = 0 /\ c.attempts = stop_after_attempt

\* C12: get_embedding(t, m) and get_batch_embeddings([t], m) that found the
\* same cache content for t, ran with the same client configuration, the
\* same remote behaviour (answering, or failing at every attempt) and the
\* same state of the local model (loaded, or not loaded, its loadability
\* fixed), and whose local encoding did not fail, have the same outcome:
\* both fail, or both return the same vector under the same model name.
C12_BatchEqualsSingle ==
    LET s == call[1]
        b == call[2]
    IN  ( /\ s.op = "single" /\ b.op = "batch"
          /\ Finished(s) /\ Finished(b)
          /\ b.texts = s.texts /\ b.model = s.model
          /\ b.cached = s.cached
          /\ \/ ~openai_client
             \/ RemoteUp(s) /\ RemoteUp(b)
             \/ RemoteDown(s) /\ RemoteDown(b)
             \/ s.sent = << >> /\ b.sent = << >> /\ s.attempts = 0
          /\ EncodeOk(s) /\ EncodeOk(b)
          /\ \/ SawLoaded(s) /\ SawLoaded(b)
             \/ SawUnloaded(s) /\ SawUnloaded(b)
             \/ MissPositions(s) = {} )
        => \/ Failed(s) /\ Failed(b)
           \/ /\ Succeeded(s) /\ Succeeded(b)
              /\ s.embeddings = b.embeddings
              /\ s.model_name = b.model_name

\* C19: add with a number of vectors other than the number of texts, one of
\* the two being empty included, fails with the validation error and leaves
\* vectors, texts and metadata as they were.
C19_AddLengthMismatchRejected ==
    [][ ( /\ sync.pc = "idle" /\ sync' # sync
          /\ sync'.op = "add_vectors"
          /\ sync'.given[1] # sync'.given[2] ) =>
            /\ sync'.error = "ValueError"
            /\ sync'.pc = "idle"
            /\ vector_search' = vector_search
      ]_vars

\* C20: whenever a handler can run an engine method (no method is in the
\* middle of its statements), every stored vector has its text and its
\* metadata entry and every text has its vector: the three arrays have one
\* length.
C20_NoPartialRecord ==
    sync.pc = "idle" =>
        /\ Len(vector_search.index) = Len(vector_search.texts)
        /\ Len(vector_search.index) = Len(vector_search.metadata)

\* C21: the text and the metadata that a search reports for index i are those
\* supplied when record i was added, an empty dictionary when none was, and
\* the indices count the records added since the last clear.
C21_SearchReportsSupplied ==
    (sync.op = "search" /\ sync.error = "none") =>
        \A j \in DOMAIN sync.result.items :
            LET e == sync.result.items[j]
            IN  /\ e.index + 1 \in DOMAIN supplied
                /\ e.text = supplied[e.index + 1].text
                /\ e.metadata = supplied[e.index + 1].metadata

\* the scores of a result list never increase
NonIncreasing(items) ==
    \A a, b \in DOMAIN items : a < b => ScoreLeq(items[b].score, items[a].score)

\* no record left out of the result scores strictly higher than a returned
\* one, unless it is below the threshold
NoBetterOmitted(engine, query, threshold, items) ==
    \A o \in 0..(Len(engine.index) - 1) :
        LET so == Score(normalize_L2(query), engine.index[o + 1])
        IN  ((\A a \in DOMAIN items : items[a].index # o)
                /\ ~BelowThreshold(so, threshold))
            => \A a \in DOMAIN items : ScoreLeq(so, items[a].score)

\* C22: a search on an index of N >= 1 records returns at most min(top_k, N)
\* results, in non-increasing order of score, every score at or above the
\* threshold when one is supplied, and no omitted record scores strictly
\* higher than a returned one unless it is below the threshold.
C22_SearchTopK ==
    (sync.op = "search" /\ Len(vector_search.index) >= 1) =>
        LET items == sync.result.items
            a == sync.args
        IN  /\ sync.error = "none"
            /\ Len(items) <= Min(a.top_k, Len(vector_search.index))
            /\ NonIncreasing(items)
            /\ \A j \in DOMAIN items : ~BelowThreshold(items[j].score, a.threshold)
            /\ NoBetterOmitted(vector_search, a.queries[1], a.threshold, items)

\* the searches C24 is about: the query is the vector of a record of the index
SearchedFor(i) ==
    /\ sync.op = "search"
    /\ sync.args.top_k >= 1
    /\ i \in DOMAIN supplied
    /\ supplied[i].vector = sync.args.queries[1]

SameDirection(u, v) == normalize_L2(u) = normalize_L2(v)

ZeroVector(v) == \A n \in DOMAIN v : v[n] = 0

C25_BatchEqualsSearch ==
    sync.op = "batch_search" =>
        LET a == sync.args
            lists == sync.result.lists
            searched(j) == SearchOutcomes(vector_search, a.queries[j], a.top_k, NoThreshold)
        IN  IF sync.error = "none"
            THEN /\ Len(lists) = Len(a.queries)
                 /\ \A j \in DOMAIN lists :
                       [items |-> lists[j], error |-> "none"] \in searched(j)
            ELSE \E j \in DOMAIN a.queries :
                    [items |-> << >>, error |-> sync.error] \in searched(j)

\* C27: every pair (i, j, score) that similar_pairs reports has i < j and a
\* score at or above the threshold, and no two reported pairs hold the same
\* two records, in either order.
C27_PairsOrderedOnce ==
    sync.op = "get_similar_pairs" =>
        LET pairs == sync.result.pairs
        IN  \A a \in DOMAIN pairs :
               /\ pairs[a][1] < pairs[a][2]
               /\ ~ScoreBelow(pairs[a][3], sync.args.threshold)
               /\ \A b \in DOMAIN pairs :
                     a # b => {pairs[a][1], pairs[a][2]} # {pairs[b][1], pairs[b][2]}

\* similar_pairs has reported two pairs on a full index
C27_Witness ==
    /\ sync.op = "get_similar_pairs"
    /\ Len(vector_search.index) = MaxRecords
    /\ Len(sync.result.pairs) >= 2

\* C28: similar_pairs reports every pair i < j of records whose similarity
\* is at or above the threshold, whatever the size of the index.
C28_PairsComplete ==
    sync.op = "get_similar_pairs" =>
        LET index == vector_search.index
            pairs == sync.result.pairs
        IN  \A i, j \in 0..(Len(index) - 1) :
               (i < j /\ ~ScoreBelow(Score(index[i + 1], index[j + 1]), sync.args.threshold))
                  => \E a \in DOMAIN pairs : pairs[a][1] = i /\ pairs[a][2] = j

ReadOps == {"search", "batch_search", "cluster_vectors", "get_similar_pairs"}

\* C23: on an empty index no read method raises: search returns an empty
\* sequence, batch_search one empty sequence per query, cluster_vectors an
\* empty result and similar_pairs no pair, whatever the arguments.
C23_EmptyIndexReads ==
    (Len(vector_search.index) = 0 /\ sync.op \in ReadOps) =>
        /\ sync.error = "none"
        /\ sync.result.items = << >>
        /\ sync.result.lists = [j \in DOMAIN sync.args.queries |-> << >>]
              \/ sync.op # "batch_search"
        /\ sync.result.pairs = << >>
        /\ sync.result.clusters = << >>
        /\ sync.result.n = << 0, 0 >> \/ sync.op # "cluster_vectors"

\* a batch of two queries, one of them of another width, was searched on an
\* index that is empty while the sidecar on disk holds records
C23_Witness ==
    /\ Len(vector_search.index) = 0
    /\ sync.op = "batch_search"
    /\ Len(sync.args.queries) = 2
    /\ Len(sync.result.lists) = 2
    /\ disk.index_file.state = "corrupt"
    /\ disk.sidecar.texts # << >>

\* the indices of the items of all reported clusters, cluster after cluster
RECURSIVE ClusteredIndices(_)
ClusteredIndices(clusters) ==
    IF clusters = << >> THEN << >>
    ELSE [j \in DOMAIN Head(clusters).items |-> Head(clusters).items[j].index]
            \o ClusteredIndices(Tail(clusters))

\* C26: cluster_vectors(n) on an index of N >= 1 records does not raise when
\* n > N and clusters as cluster_vectors(N) does; every record index of
\* 0..N-1 is in exactly one reported cluster, and there are at most
\* min(n, N) clusters.
C26_ClusterClamped ==
    (sync.op = "cluster_vectors" /\ Len(vector_search.index) >= 1
        /\ sync.args.n_clusters >= 1) =>
        LET N == Len(vector_search.index)
            ids == ClusteredIndices(sync.result.clusters)
        IN  /\ sync.error = "none"
            /\ sync.result.n[1] = Min(sync.args.n_clusters, N)
            /\ Len(sync.result.clusters) <= Min(sync.args.n_clusters, N)
            /\ sync.result.n[2] = Len(sync.result.clusters)
            /\ \A i \in 0..(N - 1) : Cardinality({j \in DOMAIN ids : ids[j] = i}) = 1
            /\ Len(ids) = N

\* the last method of the engine was a save_index that wrote both files, and
\* both are still as written
Saved ==
    /\ sync.op = "save_index"
    /\ sync.pc = "idle"
    /\ disk.index_file.state = "ok"
    /\ disk.sidecar.state = "ok"

\* C29: after a save_index, a load_index on the same engine or the start of a
\* fresh engine gives the same vectors, texts and metadata in the same
\* order, the same dimension, and the same search outcomes for every query.
C29_SaveLoadRoundTrip ==
    [][ (Saved /\ (load_index \/ restart)) =>
            /\ vector_search'.index = vector_search.index
            /\ vector_search'.texts = vector_search.texts
            /\ vector_search'.metadata = vector_search.metadata
            /\ vector_search'.dimension = vector_search.dimension
            /\ \A q \in SearchVectors, top_k \in 1..MaxRecords :
                  SearchOutcomes(vector_search', q, top_k, NoThreshold)
                      = SearchOutcomes(vector_search, q, top_k, NoThreshold)
      ]_vars

\* a fresh engine has loaded a full index with its texts and metadata
C29_Witness ==
    /\ sync.op = "init"
    /\ Len(vector_search.index) = MaxRecords
    /\ vector_search.index = disk.index_file.index
    /\ vector_search.texts = disk.sidecar.texts
    /\ Len(vector_search.texts) = MaxRecords
    /\ Len(vector_search.metadata) = MaxRecords
    /\ vector_search.metadata[1] = {}
    /\ vector_search.metadata[2] = {<< "k", "v" >>}

\* C30: a load_index that finds a readable index file and no sidecar does not
\* raise and leaves the engine without texts and without metadata, whatever
\* it held before.
C30_LoadWithoutSidecarEmptiesTexts ==
    [][ (load_index /\ disk.index_file.state = "ok" /\ disk.sidecar.state = "missing") =>
            /\ sync'.error = "none"
            /\ vector_search'.texts = << >>
            /\ vector_search'.metadata = << >>
      ]_vars

\* a step that loads: load_index, or the start of an engine that finds an
\* index file
Loads == load_index \/ (restart /\ disk.index_file.state # "missing")

\* C31: a load that cannot read the index file, or cannot read the sidecar,
\* raises nothing and leaves an empty index of the configured dimension with
\* no texts and no metadata.
C31_FailedLoadEmpties ==
    [][ (Loads /\ (disk.index_file.state # "ok" \/ disk.sidecar.state = "corrupt")) =>
            /\ sync'.error = "none"
            /\ sync'.pc = "idle"
            /\ vector_search' = EmptyEngine
      ]_vars

\* a load_index has emptied the engine although the sidecar holds records:
\* the index file could not be read
C31_Witness ==
    /\ sync.op = "load_index"
    /\ disk.index_file.state = "corrupt"
    /\ disk.sidecar.state = "ok"
    /\ Len(disk.sidecar.texts) = MaxRecords
    /\ vector_search = EmptyEngine

\* the last method of the engine was a clear_index, and it has returned
Cleared == sync.op = "clear_index" /\ sync.pc = "idle"

\* C32: when clear_index returns, from any state, the index holds no vector,
\* no text and no metadata, its dimension is the one before the clear, every
\* search returns an empty sequence, and the next add puts its first record
\* at index 0.
C32_ClearResets ==
    [][ /\ (clear_index \/ clear_texts \/ clear_metadata) =>
              vector_search'.dimension = vector_search.dimension
        /\ clear_metadata =>
              /\ Cleared'
              /\ vector_search'.index = << >>
              /\ vector_search'.texts = << >>
              /\ vector_search'.metadata = << >>
              /\ \A q \in SearchVectors, top_k \in -1..MaxRecords, threshold \in Thresholds :
                    SearchOutcomes(vector_search', q, top_k, threshold)
                        = {[items |-> << >>, error |-> "none"]}
        /\ (Cleared /\ AddAlternating) =>
              /\ Len(vector_search'.index) = 1
              /\ Len(supplied') = 1
              /\ supplied'[1].vector = << 1, 0 >>
              /\ vector_search'.index[1] = normalize_L2(supplied'[1].vector)
      ]_vars

\* clear_index has returned on an engine whose full index had been saved
C32_Witness ==
    /\ Cleared
    /\ vector_search = EmptyEngine
    /\ disk.sidecar.state = "ok"
    /\ Len(disk.sidecar.texts) = MaxRecords
    /\ Len(disk.index_file.index) = MaxRecords

\* C33: every stored vector has the dimension of the index, and an add that
\* contains a vector of another dimension fails and leaves vectors, texts
\* and metadata as they were.
C33_DimensionFixed ==
    [][ /\ \A i \in DOMAIN vector_search'.index :
              Len(vector_search'.index[i]) = vector_search'.dimension
        /\ \A embeddings \in SeqsUpTo(DimVectors, MaxAdd), texts \in SeqsUpTo({"a"}, MaxAdd) :
              (add_vectors(embeddings, texts, << >>)
                  /\ ~DimensionOk(embeddings, vector_search.dimension)) =>
                  /\ sync'.error # "none"
                  /\ sync'.pc = "idle"
                  /\ vector_search' = vector_search
      ]_vars

\* C34: whenever no engine method is running, the index holds as many
\* vectors as there are texts and as there are metadata entries, and that
\* number is the total that get_stats reports.
C34_ArraysParallel ==
    sync.pc = "idle" =>
        LET ntotal == Len(vector_search.index)
        IN  /\ Len(vector_search.texts) = ntotal
            /\ Len(vector_search.metadata) = ntotal
            /\ sync.op = "get_stats" => sync.result.n[1] = ntotal

\* C37: whatever statement of save_index the process stopped at, the engine
\* that starts afterwards holds a complete saved state: as many texts and
\* metadata entries as vectors, and the texts and metadata of the records
\* whose vectors it holds.
C37_CrashSafeSave ==
    sync.op = "init" =>
        /\ Len(vector_search.texts) = Len(vector_search.index)
        /\ Len(vector_search.metadata) = Len(vector_search.index)
        /\ \A i \in DOMAIN vector_search.index :
              /\ vector_search.texts[i] = supplied[i].text
              /\ vector_search.metadata[i] = supplied[i].metadata

\* C35: every cache entry stored under (text, model name) holds a vector
\* computed for that text by the model of that name, and every vector a call
\* returns was computed for its text by the model whose name the call reports.
C35_CacheNamesComputingModel ==
    /\ \A t \in Texts, m \in ModelNames :
          store[generate_key(t, m)] \in {NoVec, Vec(m, t)}
    /\ \A p \in Handlers :
          LET c == call[p]
          IN  Succeeded(c) =>
                \A i \in DOMAIN c.embeddings :
                    c.embeddings[i] = Vec(c.model_name, c.texts[i])

\* the call has missed the cache and waits for a provider's answer
InProvider(c) ==
    c.pc \in {"openai_attempt", "local_encode", "fallback_encode"}

\* C36: with a reachable cache, two concurrent get_embedding calls for the
\* same uncached (text, model) are never both waiting for a provider: the
\* call that starts while the other still computes the key issues no
\* provider call of its own.
C36_SingleFlight ==
    \A p, q \in Handlers :
        ( /\ p # q
          /\ available /\ store_up
          /\ call[p].op = "single" /\ call[q].op = "single"
          /\ call[p].texts = call[q].texts
          /\ call[p].model_name = call[q].model_name
          /\ InProvider(call[p]) )
        => ~InProvider(call[q])

\* C38: whether the cache is used is decided by the ping at construction and
\* never again.  When the ping failed, no later lookup finds anything and no
\* later write reaches the keyspace, also once the store answers and holds
\* entries; when it succeeded, every lookup and every write goes to the
\* store, and a store error makes that one lookup a miss and that one write
\* a no-op while the request goes on and the cache stays in use.
C38_AvailabilityDecidedOnce ==
    [][ /\ available' = available
        /\ ~available =>
              /\ \A k \in DOMAIN store : store'[k] \in {store[k], NoVec}
              /\ \A p \in Handlers :
                    \A i \in DOMAIN call'[p].cached : call'[p].cached[i] = NoVec
        /\ available =>
              /\ \A t \in Texts, m \in StoreNames :
                    get_embedding(1, t, m) =>
                       /\ call'[1].cached =
                             << IF store_up THEN store[generate_key(t, m)] ELSE NoVec >>
                       /\ ~store_up => call'[1].pc = "local_encode"
              /\ \A ts \in StoreLists, m \in StoreNames :
                    get_batch_embeddings(1, ts, m) =>
                       /\ call'[1].cached =
                             [i \in 1..Len(ts) |->
                                 IF store_up THEN store[generate_key(ts[i], m)] ELSE NoVec]
                       /\ ~store_up => call'[1].pc = "batch_encode"
              /\ (local_encode(1) /\ Succeeded(call'[1])) =>
                    store' = IF store_up
                             THEN [store EXCEPT
                                     ![generate_key(call[1].texts[1], call[1].model_name)] =
                                         call'[1].embeddings[1]]
                             ELSE store
              /\ (batch_encode(1) /\ Succeeded(call'[1])) =>
                    /\ ~store_up => store' = store
                    /\ store_up =>
                          \A i \in MissPositions(call[1]) :
                              store'[generate_key(call[1].texts[i], call[1].model_name)] =
                                  call'[1].embeddings[i]
      ]_vars

\* C38 witness: the store did not answer at construction and answers now,
\* holding an entry for the text; a request for that text was told nothing
\* is cached, computed the vector and returned it
C38_Witness ==
    /\ ~available /\ store_up
    /\ store[generate_key("a", embedding_model_local)] # NoVec
    /\ store[generate_key("a:x", embedding_model_local)] = NoVec
    /\ call[1].op = "batch" /\ Succeeded(call[1])
    /\ call[1].texts = << "a:x", "a" >>
    /\ call[1].model_name = embedding_model_local
    /\ call[1].cached = << NoVec, NoVec >>
    /\ call[1].writes # << >>

\* C39: a request whose route is the local provider never reaches the remote
\* provider and never enters a fallback, with or without a remote client;
\* it calls the local provider at most once, and when that fails the request
\* fails with no vector and no cache write.
C39_LocalRouteNeverFallsBack ==
    \A p \in Handlers :
        LET c == call[p]
        IN  c.model_type = "local" =>
              /\ RemoteCalls(c) = 0
              /\ c.attempts = 0
              /\ c.pc \notin {"openai_attempt", "batch_openai",
                              "fallback_encode", "batch_fallback_encode"}
              /\ LocalCalls(c) <= 1
              /\ Failed(c) => (c.embeddings = << >> /\ c.writes = << >>)

\* C39 witness: a remote client is configured and a request named a local
\* model; the local encoding failed and the request failed, the client unused
C39_Witness ==
    /\ openai_client
    /\ call[1].op = "single"
    /\ call[1].model = embedding_model_local
    /\ call[1].model_type = "local"
    /\ Failed(call[1])
    /\ LocalCalls(call[1]) = 1
    /\ RemoteCalls(call[1]) = 0
    /\ call[1].embeddings = << >>

\* C40: the content hashed into a key determines the (text, model) pair, so
\* a lookup finds only what was written for its own pair: every vector a
\* request got from the cache was computed for the text the request asked
\* about, also when texts and model names contain ':'.
C40_KeyContentInjective ==
    \A p \in Handlers :
        LET c == call[p]
        IN  \A i \in DOMAIN c.cached :
                c.cached[i] # NoVec => c.cached[i].of = c.texts[i]

=============================================================================
